---- MODULE Spec2Model ----
(***************************************************************************)
(* Model of smart_ptr.go: a multi-version, reference counted handle        *)
(* (ImmRscHandle) cached per goroutine in gLocalImmRscHandles and          *)
(* published through latestImmRscHandle.                                   *)
(*                                                                         *)
(* Every memory access of the source is one step.  In particular the two   *)
(* helpers atomicSwapGLocalImmRscHandle and                                *)
(* atomicCmpAndSwapGLocalImmRscHandles are NOT single atomic steps in the  *)
(* source: the first does a plain store and then an atomic swap, the       *)
(* second does a plain read, then either a plain store or an atomic CAS.   *)
(* A Go panic that is not recovered ends the program: it is recorded in    *)
(* err and no step is taken afterwards.                                    *)
(***************************************************************************)
EXTENDS Integers, FiniteSets, Sequences, TLC

\* ---- bounds of the model ----
NumReaders == 2      \* reader goroutines, each allocates one goroutine ID
NumWriters == 2      \* goroutines calling UpdateResouce
MaxUpdates == 3      \* UpdateResouce calls in a run
MaxShared  == 1      \* references returned by GetResouce(_, true) held at once, per handle

\* ---- pointer values ----
nil    == -1         \* the nil *ImmRscHandle
kInuse == -2         \* the sentinel handle kInuse

Readers    == 1..NumReaders
Writers    == (NumReaders + 1)..(NumReaders + NumWriters)
Goroutines == Readers \cup Writers
NoOne      == 0
\* handle 0 is the placeholder latestImmRscHandle starts with (R = nil),
\* handle v >= 1 is the one built by the v-th UpdateResouce
Handles    == 0..MaxUpdates
\* slots of gLocalImmRscHandles that the model keeps: one per reader and one
\* that is never allocated
Slots      == 0..NumReaders
Ptrs       == Handles \cup {nil, kInuse}

VARIABLES
    maxGID,                 \* var maxGID int32
    gLocalImmRscHandles,    \* var gLocalImmRscHandles [1024]*ImmRscHandle
    latestImmRscHandle,     \* var latestImmRscHandle *ImmRscHandle
    latestImmRscHandleMutex,\* holder of the sync.Mutex, NoOne when unlocked
    refcnt,                 \* ImmRscHandle.refcnt of every handle
    created,                \* number of handles built by UpdateResouce
    deleted,                \* how often R.Delete() ran on each handle's resource
    err,                    \* "" or the panic that ended the program
    pc,                     \* position of every goroutine
    gid,                    \* reader: the ID AllocateGLocalImmRscHandle returned
    arg,                    \* reader: gID argument of the running call
    mightShare,             \* reader: mightShare argument of the running/last GetResouce
    res,                    \* reader: local res / gotFromLocal
    old,                    \* writer: local old
    i,                      \* writer: loop variable i
    local,                  \* writer: local `local`
    shared,                 \* references handed out by GetResouce(_, true), not yet Unref'ed
    hist                    \* observations about the run (no effect on it)

prog == <<maxGID, gLocalImmRscHandles, latestImmRscHandle, latestImmRscHandleMutex,
          refcnt, created, deleted, err, pc, gid, arg, mightShare, res, old, i,
          local, shared>>
vars == <<prog, hist>>

\* ---- ImmRscHandle ----

\* newImmRscHandle(rsc): field R of handle h; only the placeholder has R = nil
R(h) == IF h = 0 THEN nil ELSE h

\* newImmRscHandle(rsc): refcnt of a fresh handle
newImmRscHandle == 1

ErrRef       == "Ref: bad refcnt"
ErrUnref     == "Unref: bad refcnt"
ErrNilDelete == "Unref: nil pointer dereference in p.R.Delete()"
ErrInuse     == "GetResouce: must be either a valid ptr or a nil set by writer"
ErrBadID     == "GetResouce: unallocated goroutine ID"
ErrStale     == "UpdateResouce: does not hold the latest version"
ErrLoopLast  == "UpdateResouce: bad refcnt"

\* value of atomic.AddInt32(&p.refcnt, -1)
UnrefAfter(h) == refcnt[h] - 1

\* (p *ImmRscHandle) Unref(): the return value `deleted`
UnrefDeleted(h) == UnrefAfter(h) = 0

\* (p *ImmRscHandle) Unref(): the panic it ends with, "" when it returns
UnrefErr(h) ==
    IF UnrefAfter(h) = 0
    THEN (IF R(h) = nil THEN ErrNilDelete ELSE "")
    ELSE (IF UnrefAfter(h) < 0 THEN ErrUnref ELSE "")

\* (p *ImmRscHandle) Unref(): effect on refcnt and on the resource
Unref(h) ==
    /\ refcnt' = [refcnt EXCEPT ![h] = UnrefAfter(h)]
    /\ deleted' = IF UnrefAfter(h) = 0 /\ R(h) # nil
                  THEN [deleted EXCEPT ![h] = @ + 1]
                  ELSE deleted

\* (p *ImmRscHandle) Ref(): the panic it ends with, "" when it returns
RefErr(h) == IF refcnt[h] + 1 <= 0 THEN ErrRef ELSE ""

\* (p *ImmRscHandle) Ref(): effect on refcnt
Ref(h) == refcnt' = [refcnt EXCEPT ![h] = @ + 1]

\* ---- initial state: the package-level var declarations ----
Init ==
    /\ maxGID = -1
    /\ gLocalImmRscHandles = [s \in Slots |-> nil]
    /\ latestImmRscHandle = 0
    /\ latestImmRscHandleMutex = NoOne
    /\ refcnt = [h \in Handles |-> IF h = 0 THEN newImmRscHandle ELSE 0]
    /\ created = 0
    /\ deleted = [h \in Handles |-> 0]
    /\ err = ""
    /\ pc = [g \in Goroutines |-> IF g \in Readers THEN "start" ELSE "idle"]
    /\ gid = [g \in Readers |-> -1]
    /\ arg = [g \in Readers |-> -1]
    /\ mightShare = [g \in Readers |-> FALSE]
    /\ res = [g \in Readers |-> nil]
    /\ old = [w \in Writers |-> nil]
    /\ i = [w \in Writers |-> 0]
    /\ local = [w \in Writers |-> nil]
    /\ shared = [h \in Handles |-> 0]
    /\ hist = [returned |-> 0,
               floor    |-> [g \in Readers |-> 0],
               entry    |-> [g \in Readers |-> nil],
               rel      |-> [g \in Readers |-> 0],
               installs |-> [h \in Handles |-> 0],
               globalRel|-> [h \in Handles |-> 0]]

Running == err = ""

\* the reader goroutine that owns slot s, NoOne when there is none
OwnerOf(s) == IF \E g \in Readers : gid[g] = s
              THEN CHOOSE g \in Readers : gid[g] = s
              ELSE NoOne

\* ---- AllocateGLocalImmRscHandle ----
AllocateGLocalImmRscHandle(g) ==
    /\ Running
    /\ pc[g] = "start"
    /\ maxGID' = maxGID + 1
    /\ gLocalImmRscHandles' = [gLocalImmRscHandles EXCEPT ![maxGID + 1] = nil]
    /\ gid' = [gid EXCEPT ![g] = maxGID + 1]
    /\ pc' = [pc EXCEPT ![g] = "ready"]
    /\ UNCHANGED <<latestImmRscHandle, latestImmRscHandleMutex, refcnt, created,
                   deleted, err, arg, mightShare, res, old, i, local, shared, hist>>

\* ---- GetResouce(gID, mightShare) ----

RECURSIVE SumShared(_)
SumShared(H) == IF H = {} THEN 0
                ELSE LET h == CHOOSE x \in H : TRUE
                     IN shared[h] + SumShared(H \ {h})

\* references a GetResouce(_, true) has returned or is about to return
SharedOut == SumShared(Handles)
             + Cardinality({g \in Readers : mightShare[g] /\ pc[g] \notin {"start", "ready", "panic"}})

\* the handle slot s caches, nil when it caches none
CachedIn(s) == IF gLocalImmRscHandles[s] \in Handles THEN gLocalImmRscHandles[s] ELSE nil

\* Get_store without the plain store of line 39: the swap of line 40 then
\* sees the value the slot held before the call
Get_store_SwapOnly(g, ms) ==
    /\ Running
    /\ pc[g] = "ready"
    /\ ~(gid[g] < 0 \/ gid[g] > maxGID)
    /\ ms => SharedOut < MaxShared
    /\ arg' = [arg EXCEPT ![g] = gid[g]]
    /\ res' = [res EXCEPT ![g] = nil]
    /\ mightShare' = [mightShare EXCEPT ![g] = ms]
    /\ pc' = [pc EXCEPT ![g] = "get_swap"]
    /\ hist' = [hist EXCEPT !.floor[g] = hist.returned,
                            !.entry[g] = CachedIn(gid[g]),
                            !.rel[g] = 0]
    /\ UNCHANGED <<maxGID, gLocalImmRscHandles, latestImmRscHandle,
                   latestImmRscHandleMutex, refcnt, created, deleted, err, gid, old,
                   i, local, shared>>

\* lines 80-82 and line 39 of atomicSwapGLocalImmRscHandle(gID, kInuse):
\* the ID check passes and the slot is overwritten by a plain store
Get_store(g, ms) ==
    /\ Running
    /\ pc[g] = "ready"
    /\ ~(gid[g] < 0 \/ gid[g] > maxGID)
    /\ ms => SharedOut < MaxShared
    /\ arg' = [arg EXCEPT ![g] = gid[g]]
    /\ res' = [res EXCEPT ![g] = nil]
    /\ mightShare' = [mightShare EXCEPT ![g] = ms]
    /\ gLocalImmRscHandles' = [gLocalImmRscHandles EXCEPT ![gid[g]] = kInuse]
    /\ pc' = [pc EXCEPT ![g] = "get_swap"]
    /\ hist' = [hist EXCEPT !.floor[g] = hist.returned,
                            !.entry[g] = CachedIn(gid[g]),
                            !.rel[g] = 0]
    /\ UNCHANGED <<maxGID, latestImmRscHandle, latestImmRscHandleMutex, refcnt,
                   created, deleted, err, gid, old, i, local, shared>>

\* where GetResouce goes once res is set: line 105
AfterRes(ms) == IF ms THEN "get_shareref" ELSE "using"

\* line 40 of atomicSwapGLocalImmRscHandle(gID, kInuse) and lines 95-103
Get_swap(g) ==
    /\ Running
    /\ pc[g] = "get_swap"
    /\ LET prev == gLocalImmRscHandles[arg[g]] IN
       /\ gLocalImmRscHandles' = [gLocalImmRscHandles EXCEPT ![arg[g]] = kInuse]
       /\ IF prev = nil
          THEN /\ pc' = [pc EXCEPT ![g] = "get_lock"]
               /\ UNCHANGED <<res, err>>
          ELSE IF prev = kInuse
          THEN /\ pc' = [pc EXCEPT ![g] = "panic"]
               /\ err' = ErrInuse
               /\ UNCHANGED res
          ELSE /\ res' = [res EXCEPT ![g] = prev]
               /\ pc' = [pc EXCEPT ![g] = AfterRes(mightShare[g])]
               /\ UNCHANGED err
    /\ UNCHANGED <<maxGID, latestImmRscHandle, latestImmRscHandleMutex, refcnt,
                   created, deleted, gid, arg, mightShare, old, i, local, shared, hist>>

\* Get_lock without the Ref(): the latest handle is returned uncounted
Get_lock_NoRef(g) ==
    /\ Running
    /\ pc[g] = "get_lock"
    /\ latestImmRscHandleMutex = NoOne
    /\ res' = [res EXCEPT ![g] = latestImmRscHandle]
    /\ pc' = [pc EXCEPT ![g] = AfterRes(mightShare[g])]
    /\ UNCHANGED <<maxGID, gLocalImmRscHandles, latestImmRscHandle,
                   latestImmRscHandleMutex, refcnt, err, created, deleted,
                   gid, arg, mightShare, old, i, local, shared, hist>>

\* lines 96-98: Lock(); res = latestImmRscHandle.Ref(); Unlock().
\* The critical section holds one access to shared memory, the atomic add of
\* Ref(); Lock() commutes to the right and Unlock() to the left of every step
\* of another goroutine, so the three run as one step.  A reader at get_lock
\* is a reader waiting for, or about to take, the mutex.
Get_lock(g) ==
    /\ Running
    /\ pc[g] = "get_lock"
    /\ latestImmRscHandleMutex = NoOne
    /\ Ref(latestImmRscHandle)
    /\ res' = [res EXCEPT ![g] = latestImmRscHandle]
    /\ err' = RefErr(latestImmRscHandle)
    /\ IF RefErr(latestImmRscHandle) = ""
       THEN /\ latestImmRscHandleMutex' = NoOne
            /\ pc' = [pc EXCEPT ![g] = AfterRes(mightShare[g])]
       ELSE /\ pc' = [pc EXCEPT ![g] = "panic"]
            /\ latestImmRscHandleMutex' = g
    /\ UNCHANGED <<maxGID, gLocalImmRscHandles, latestImmRscHandle, created, deleted,
                   gid, arg, mightShare, old, i, local, shared, hist>>

\* line 108: the argument res.Ref() of the compare-and-swap
Get_shareref(g) ==
    /\ Running
    /\ pc[g] = "get_shareref"
    /\ Ref(res[g])
    /\ err' = RefErr(res[g])
    /\ pc' = [pc EXCEPT ![g] = IF RefErr(res[g]) = "" THEN "cas_read" ELSE "panic"]
    /\ UNCHANGED <<maxGID, gLocalImmRscHandles, latestImmRscHandle,
                   latestImmRscHandleMutex, created, deleted, gid, arg, mightShare,
                   res, old, i, local, shared, hist>>

\* ---- atomicCmpAndSwapGLocalImmRscHandles(gID, kInuse, new) ----
\* called by GetResouce (line 108, new = res.Ref()) and by DoneUsingResource
\* (line 120, new = gotFromLocal); the reader's res is `new` in both

\* line 43: the plain read `old == gLocalImmRscHandles[gID]`
CasNext(s) == IF gLocalImmRscHandles[s] = kInuse THEN "cas_store" ELSE "cas_atomic"

\* line 43, reached from GetResouce line 108
Get_casread(g) ==
    /\ Running
    /\ pc[g] = "cas_read"
    /\ pc' = [pc EXCEPT ![g] = CasNext(arg[g])]
    /\ UNCHANGED <<maxGID, gLocalImmRscHandles, latestImmRscHandle,
                   latestImmRscHandleMutex, refcnt, created, deleted, err, gid, arg,
                   mightShare, res, old, i, local, shared, hist>>

\* the return of the call that used the compare-and-swap: GetResouce hands
\* res to its caller (line 116), DoneUsingResource just returns
Returned(g, H) ==
    /\ hist' = [H EXCEPT !.floor[g] = 0, !.entry[g] = nil]
    /\ pc' = [pc EXCEPT ![g] = "ready"]
    /\ shared' = IF mightShare[g] THEN [shared EXCEPT ![res[g]] = @ + 1] ELSE shared
    /\ res' = IF mightShare[g] THEN [res EXCEPT ![g] = nil] ELSE res

\* Cas_store that reports failure although it stored: the caller releases a
\* reference the slot now owns
Cas_store_Release(g) ==
    /\ Running
    /\ pc[g] = "cas_store"
    /\ gLocalImmRscHandles' = [gLocalImmRscHandles EXCEPT ![arg[g]] = res[g]]
    /\ pc' = [pc EXCEPT ![g] = "cas_unref"]
    /\ UNCHANGED <<maxGID, latestImmRscHandle, latestImmRscHandleMutex, refcnt,
                   created, deleted, err, gid, arg, mightShare, res, old, i, local,
                   shared, hist>>

\* lines 44-45: the plain store `gLocalImmRscHandles[gID] = new; return true`
Cas_store(g) ==
    /\ Running
    /\ pc[g] = "cas_store"
    /\ gLocalImmRscHandles' = [gLocalImmRscHandles EXCEPT ![arg[g]] = res[g]]
    /\ Returned(g, hist)
    /\ UNCHANGED <<maxGID, latestImmRscHandle, latestImmRscHandleMutex, refcnt,
                   created, deleted, err, gid, arg, mightShare, old, i, local>>

\* line 47: atomic.CompareAndSwapPointer, and the branch on its result
\* (lines 108-112, 120-122)
Cas_atomic(g) ==
    /\ Running
    /\ pc[g] = "cas_atomic"
    /\ IF gLocalImmRscHandles[arg[g]] = kInuse
       THEN /\ gLocalImmRscHandles' = [gLocalImmRscHandles EXCEPT ![arg[g]] = res[g]]
            /\ Returned(g, hist)
       ELSE /\ pc' = [pc EXCEPT ![g] = "cas_unref"]
            /\ UNCHANGED <<gLocalImmRscHandles, shared, res, hist>>
    /\ UNCHANGED <<maxGID, latestImmRscHandle, latestImmRscHandleMutex, refcnt,
                   created, deleted, err, gid, arg, mightShare, old, i, local>>

\* lines 111 and 121: res.Unref() / gotFromLocal.Unref() after a failed CAS
Cas_unref(g) ==
    /\ Running
    /\ pc[g] = "cas_unref"
    /\ Unref(res[g])
    /\ err' = UnrefErr(res[g])
    /\ IF UnrefErr(res[g]) = ""
       THEN Returned(g, [hist EXCEPT !.rel[g] = @ + 1])
       ELSE /\ pc' = [pc EXCEPT ![g] = "panic"]
            /\ hist' = [hist EXCEPT !.rel[g] = @ + 1]
            /\ UNCHANGED <<shared, res>>
    /\ UNCHANGED <<maxGID, gLocalImmRscHandles, latestImmRscHandle,
                   latestImmRscHandleMutex, created, gid, arg, mightShare, old,
                   i, local>>

\* ---- DoneUsingResource(gID, gotFromLocal) ----
\* line 120: the call, with the goroutine's own ID, and line 43 inside it
DoneUsingResource(g) ==
    /\ Running
    /\ pc[g] = "using"
    /\ arg' = [arg EXCEPT ![g] = gid[g]]
    /\ pc' = [pc EXCEPT ![g] = CasNext(gid[g])]
    /\ UNCHANGED <<maxGID, gLocalImmRscHandles, latestImmRscHandle,
                   latestImmRscHandleMutex, refcnt, created, deleted, err, gid,
                   mightShare, res, old, i, local, shared, hist>>

\* ---- the caller of GetResouce(_, true) releasing its reference: Unref() ----
CallerUnref(h) ==
    /\ Running
    /\ shared[h] > 0
    /\ Unref(h)
    /\ err' = UnrefErr(h)
    /\ shared' = [shared EXCEPT ![h] = @ - 1]
    /\ UNCHANGED <<maxGID, gLocalImmRscHandles, latestImmRscHandle,
                   latestImmRscHandleMutex, created, pc, gid, arg, mightShare, res,
                   old, i, local, hist>>

\* ---- UpdateResouce(r) ----

\* what a writer's access to slot s does to the observations of its owner
Touch(H, s) ==
    LET g == OwnerOf(s) IN
    IF g = NoOne THEN H
    ELSE [H EXCEPT !.entry[g] = IF pc[g] = "get_swap" THEN nil ELSE @]

\* line 133: the loop condition `i <= int(maxGID)` for i = k.  It is evaluated
\* in the step that sets i: the only write it can race with is the atomic add
\* of AllocateGLocalImmRscHandle, which commutes with that step.
LoopNext(k) == IF k <= maxGID THEN "upd_store" ELSE "upd_unref"

\* line 145: latestImmRscHandleMutex.Unlock() when the loop ends with i = k.
\* Unlock() commutes to the left of every step of another goroutine, so it
\* runs in the step that ends the loop.
LoopMutex(w, k) == IF k <= maxGID THEN w ELSE NoOne

\* Update_lock that does not wait for the mutex
Update_lock_NoMutex(w) ==
    /\ Running
    /\ pc[w] = "idle"
    /\ created < MaxUpdates
    /\ latestImmRscHandleMutex' = LoopMutex(w, 0)
    /\ old' = [old EXCEPT ![w] = latestImmRscHandle]
    /\ latestImmRscHandle' = created + 1
    /\ created' = created + 1
    /\ refcnt' = [refcnt EXCEPT ![created + 1] = newImmRscHandle]
    /\ i' = [i EXCEPT ![w] = 0]
    /\ pc' = [pc EXCEPT ![w] = LoopNext(0)]
    /\ hist' = [hist EXCEPT !.installs[created + 1] = @ + 1]
    /\ UNCHANGED <<maxGID, gLocalImmRscHandles, deleted, err, gid, arg, mightShare,
                   res, local, shared>>

\* lines 128-133: Lock(), old := latest, latest = newImmRscHandle(r), i := 0.
\* Lock() is taken in the same step as the two assignments it protects: no
\* other goroutine reads or writes latestImmRscHandle without the mutex.
Update_lock(w) ==
    /\ Running
    /\ pc[w] = "idle"
    /\ created < MaxUpdates
    /\ latestImmRscHandleMutex = NoOne
    /\ latestImmRscHandleMutex' = LoopMutex(w, 0)
    /\ old' = [old EXCEPT ![w] = latestImmRscHandle]
    /\ latestImmRscHandle' = created + 1
    /\ created' = created + 1
    /\ refcnt' = [refcnt EXCEPT ![created + 1] = newImmRscHandle]
    /\ i' = [i EXCEPT ![w] = 0]
    /\ pc' = [pc EXCEPT ![w] = LoopNext(0)]
    /\ hist' = [hist EXCEPT !.installs[created + 1] = @ + 1]
    /\ UNCHANGED <<maxGID, gLocalImmRscHandles, deleted, err, gid, arg, mightShare,
                   res, local, shared>>

\* line 39 of atomicSwapGLocalImmRscHandle(i, nil): the plain store
Update_store(w) ==
    /\ Running
    /\ pc[w] = "upd_store"
    /\ gLocalImmRscHandles' = [gLocalImmRscHandles EXCEPT ![i[w]] = nil]
    /\ pc' = [pc EXCEPT ![w] = "upd_swap"]
    /\ hist' = Touch(hist, i[w])
    /\ UNCHANGED <<maxGID, latestImmRscHandle, latestImmRscHandleMutex, refcnt,
                   created, deleted, err, gid, arg, mightShare, res, old, i, local,
                   shared>>

\* line 40 of atomicSwapGLocalImmRscHandle(i, nil) and lines 135-138
Update_swap(w) ==
    /\ Running
    /\ pc[w] = "upd_swap"
    /\ LET prev == gLocalImmRscHandles[i[w]] IN
       /\ gLocalImmRscHandles' = [gLocalImmRscHandles EXCEPT ![i[w]] = nil]
       /\ local' = [local EXCEPT ![w] = prev]
       /\ IF prev # kInuse /\ prev # nil
          THEN IF old[w] # prev
               THEN /\ err' = ErrStale
                    /\ pc' = [pc EXCEPT ![w] = "panic"]
                    /\ UNCHANGED <<i, latestImmRscHandleMutex>>
               ELSE /\ pc' = [pc EXCEPT ![w] = "upd_inval"]
                    /\ UNCHANGED <<err, i, latestImmRscHandleMutex>>
          ELSE /\ i' = [i EXCEPT ![w] = @ + 1]
               /\ pc' = [pc EXCEPT ![w] = LoopNext(i[w] + 1)]
               /\ latestImmRscHandleMutex' = LoopMutex(w, i[w] + 1)
               /\ UNCHANGED err
    /\ hist' = Touch(hist, i[w])
    /\ UNCHANGED <<maxGID, latestImmRscHandle, refcnt,
                   created, deleted, gid, arg, mightShare, res, old, shared>>

\* lines 139-141: `if local.Unref() { panic("bad refcnt") }` and the loop's i++
Update_inval(w) ==
    /\ Running
    /\ pc[w] = "upd_inval"
    /\ Unref(local[w])
    /\ err' = IF UnrefErr(local[w]) # "" THEN UnrefErr(local[w])
              ELSE IF UnrefDeleted(local[w]) THEN ErrLoopLast ELSE ""
    /\ IF err' = ""
       THEN /\ i' = [i EXCEPT ![w] = @ + 1]
            /\ pc' = [pc EXCEPT ![w] = LoopNext(i[w] + 1)]
            /\ latestImmRscHandleMutex' = LoopMutex(w, i[w] + 1)
       ELSE /\ pc' = [pc EXCEPT ![w] = "panic"]
            /\ UNCHANGED <<i, latestImmRscHandleMutex>>
    /\ hist' = IF OwnerOf(i[w]) = NoOne THEN hist
               ELSE [hist EXCEPT !.rel[OwnerOf(i[w])] = @ + 1]
    /\ UNCHANGED <<maxGID, gLocalImmRscHandles, latestImmRscHandle,
                   created, gid, arg, mightShare, res, old, local, shared>>

\* line 149: old.Unref(), then UpdateResouce returns
Update_unref(w) ==
    /\ Running
    /\ pc[w] = "upd_unref"
    /\ Unref(old[w])
    /\ err' = UnrefErr(old[w])
    /\ pc' = [pc EXCEPT ![w] = IF UnrefErr(old[w]) = "" THEN "idle" ELSE "panic"]
    /\ hist' = [hist EXCEPT !.globalRel[old[w]] = @ + 1,
                            !.returned = IF UnrefErr(old[w]) = "" /\ old[w] + 1 > @
                                         THEN old[w] + 1 ELSE @]
    /\ old' = [old EXCEPT ![w] = nil]
    /\ local' = [local EXCEPT ![w] = nil]
    /\ i' = [i EXCEPT ![w] = 0]
    /\ UNCHANGED <<maxGID, gLocalImmRscHandles, latestImmRscHandle,
                   latestImmRscHandleMutex, created, gid, arg, mightShare, res, shared>>

\* ---- the program under correct usage ----
Next ==
    \/ \E g \in Readers : AllocateGLocalImmRscHandle(g)
    \/ \E g \in Readers, ms \in BOOLEAN : Get_store(g, ms)
    \/ \E g \in Readers : Get_swap(g)
    \/ \E g \in Readers : Get_lock(g)
    \/ \E g \in Readers : Get_shareref(g)
    \/ \E g \in Readers : Get_casread(g)
    \/ \E g \in Readers : Cas_store(g)
    \/ \E g \in Readers : Cas_atomic(g)
    \/ \E g \in Readers : Cas_unref(g)
    \/ \E g \in Readers : DoneUsingResource(g)
    \/ \E h \in Handles : CallerUnref(h)
    \/ \E w \in Writers : Update_lock(w)
    \/ \E w \in Writers : Update_store(w)
    \/ \E w \in Writers : Update_swap(w)
    \/ \E w \in Writers : Update_inval(w)
    \/ \E w \in Writers : Update_unref(w)

Spec == Init /\ [][Next]_vars

\* ---- calls with a goroutine ID that was not allocated ----

ErrIndex == "DoneUsingResource: index out of range"

\* the IDs tried: a negative one and the first one not allocated
BadIDs == {-1, maxGID + 1}

\* lines 80-82: GetResouce panics before it touches anything, whatever
\* mightShare is
Get_badID(g, id) ==
    /\ Running
    /\ pc[g] = "ready"
    /\ id \in BadIDs
    /\ id < 0 \/ id > maxGID
    /\ arg' = [arg EXCEPT ![g] = id]
    /\ err' = ErrBadID
    /\ pc' = [pc EXCEPT ![g] = "panic"]
    /\ UNCHANGED <<maxGID, gLocalImmRscHandles, latestImmRscHandle,
                   latestImmRscHandleMutex, refcnt, created, deleted, gid,
                   mightShare, res, old, i, local, shared, hist>>

\* line 120 and line 43: DoneUsingResource does not check gID.  Indexing the
\* array with a negative ID is a run-time panic; any other ID below the array
\* length is read like an allocated one.
DoneUsing_badID(g, id) ==
    /\ Running
    /\ pc[g] = "using"
    /\ id \in BadIDs
    /\ arg' = [arg EXCEPT ![g] = id]
    /\ IF id \in Slots
       THEN pc' = [pc EXCEPT ![g] = CasNext(id)] /\ UNCHANGED err
       ELSE pc' = [pc EXCEPT ![g] = "panic"] /\ err' = ErrIndex
    /\ UNCHANGED <<maxGID, gLocalImmRscHandles, latestImmRscHandle,
                   latestImmRscHandleMutex, refcnt, created, deleted, gid,
                   mightShare, res, old, i, local, shared, hist>>

\* the program when callers may also pass IDs that were not allocated; the
\* readers use the GetResouce(_, false) / DoneUsingResource pair, the one
\* usage in which both functions receive an ID
NextMisuse ==
    \/ \E g \in Readers : AllocateGLocalImmRscHandle(g)
    \/ \E g \in Readers : Get_store(g, FALSE)
    \/ \E g \in Readers : Get_swap(g)
    \/ \E g \in Readers : Get_lock(g)
    \/ \E g \in Readers : Cas_store(g)
    \/ \E g \in Readers : Cas_atomic(g)
    \/ \E g \in Readers : Cas_unref(g)
    \/ \E g \in Readers : DoneUsingResource(g)
    \/ \E w \in Writers : Update_lock(w)
    \/ \E w \in Writers : Update_store(w)
    \/ \E w \in Writers : Update_swap(w)
    \/ \E w \in Writers : Update_inval(w)
    \/ \E w \in Writers : Update_unref(w)
    \/ \E g \in Readers, id \in -1..NumReaders : Get_badID(g, id)
    \/ \E g \in Readers, id \in -1..NumReaders : DoneUsing_badID(g, id)

SpecMisuse == Init /\ [][NextMisuse]_vars

\* ---- vocabulary of the properties ----

\* positions at which a reader owns the counted reference res: from the moment
\* GetResouce has set res until the reference is stored back or released
HoldingPCs == {"get_shareref", "cas_read", "cas_store", "cas_atomic", "cas_unref", "using"}

\* g holds handle h, in GetResouce, between GetResouce and DoneUsingResource,
\* or in DoneUsingResource
Holds(g, h) == pc[g] \in HoldingPCs /\ res[g] = h

\* handles a UpdateResouce has published
Published == 1..created

\* writers between Lock() and Unlock() of UpdateResouce
InCritical == {w \in Writers : pc[w] \in {"upd_store", "upd_swap", "upd_inval"}}

\* C1: Delete runs at most once on a published resource, and a resource on
\* which it has run is not the latest one, is cached in no slot and is held
\* by no caller.
C1_DeleteOnceUnused ==
    \A h \in Handles :
        /\ deleted[h] <= 1
        /\ deleted[h] = 1 =>
              /\ latestImmRscHandle # h
              /\ \A s \in Slots : gLocalImmRscHandles[s] # h
              /\ shared[h] = 0
              /\ \A g \in Readers : ~Holds(g, h)

\* a published resource was disposed by the release of a reader, while the
\* program goes on
C1_Witness ==
    \E h \in Published, g \in Readers :
        deleted[h] = 1 /\ err = "" /\ res[g] = h /\ pc[g] = "ready" /\ hist.rel[g] = 1

\* C2: a handle GetResouce has handed out is a published one, and until its
\* holder releases it its refcount is at least 1 and Delete has not run on it.
C2_NoUseAfterDispose ==
    /\ \A g \in Readers : pc[g] \in HoldingPCs =>
          res[g] \in Published /\ refcnt[res[g]] >= 1 /\ deleted[res[g]] = 0
    /\ \A h \in Handles : shared[h] > 0 =>
          h \in Published /\ refcnt[h] >= shared[h] /\ deleted[h] = 0

\* a caller still uses a version that two later UpdateResouce calls replaced
C2_Witness ==
    \E g \in Readers :
        pc[g] = "using" /\ res[g] + 2 <= latestImmRscHandle /\ err = ""

C8_RefcntNonNegative ==
    /\ \A h \in Handles : refcnt[h] >= 0
    /\ err # ErrUnref

\* a reference was given up in each of the three places that call Unref and
\* a refcount came down to 0
C8_Witness ==
    \E h \in Published, g \in Readers :
        /\ refcnt[h] = 0
        /\ hist.globalRel[h] = 1
        /\ hist.rel[g] = 1

\* C9: at most one UpdateResouce is between Lock() and Unlock(); every
\* published handle was installed exactly once; the global reference of a
\* handle is released at most once, only after the handle was superseded, and
\* every superseded handle is either still owned by the UpdateResouce that
\* superseded it or has had its global reference released.
C9_UpdatesSerialized ==
    /\ Cardinality(InCritical) <= 1
    /\ \A w \in InCritical : latestImmRscHandleMutex = w
    /\ \A h \in Handles : hist.installs[h] = (IF h \in Published THEN 1 ELSE 0)
    /\ \A h \in Handles : hist.globalRel[h] <= 1
    /\ \A h \in Handles : hist.globalRel[h] = 1 => h < latestImmRscHandle
    /\ \A h \in Handles : h < latestImmRscHandle =>
          (hist.globalRel[h] = 1) # (\E w \in Writers : old[w] = h /\ pc[w] # "idle")
    /\ \A w1, w2 \in Writers :
          (w1 # w2 /\ pc[w1] # "idle" /\ pc[w2] # "idle") => old[w1] # old[w2]

\* two UpdateResouce calls overlap: one waits to release the handle it
\* superseded while the other is inside its invalidation loop
C9_Witness ==
    \E w1, w2 \in Writers :
        /\ pc[w1] = "upd_unref"
        /\ pc[w2] = "upd_swap"
        /\ old[w2] = old[w1] + 1
        /\ err = ""

\* C4: a published version whose superseding UpdateResouce has returned and
\* which no caller holds any more has refcount 0 and has been disposed, with
\* no further GetResouce needed.
C4_NoLeak ==
    \A h \in Published :
        (/\ err = ""
         /\ hist.globalRel[h] = 1
         /\ shared[h] = 0
         /\ \A g \in Readers : ~Holds(g, h))
        => (refcnt[h] = 0 /\ deleted[h] = 1)

\* C5: once DoneUsingResource(w, h) has returned, the reference it gave back
\* is either still cached in slot w and unreleased, or it has been released
\* exactly once (by the reader after a failed compare-and-swap, or by the
\* writer that took it out of the slot, which may be about to do so).
C5_ReleasedExactlyOnce ==
    \A g \in Readers :
        (pc[g] = "ready" /\ res[g] # nil) =>
            /\ hist.rel[g] <= 1
            /\ gLocalImmRscHandles[gid[g]] = res[g] => hist.rel[g] = 0
            /\ gLocalImmRscHandles[gid[g]] # res[g] =>
                  \/ hist.rel[g] = 1
                  \/ \E w \in Writers :
                        pc[w] = "upd_inval" /\ i[w] = gid[g] /\ local[w] = res[g]

\* C6: a GetResouce that found handle h cached in its slot, with no writer
\* touching the slot up to the swap, yields h, without waiting for the mutex
\* and without a panic.
C6_FastPath ==
    \A g \in Readers :
        (hist.entry[g] # nil /\ pc[g] \notin {"start", "ready", "get_swap"}) =>
            /\ pc[g] \notin {"panic", "get_lock"}
            /\ res[g] = hist.entry[g]

\* C7: GetResouce never finds the sentinel in its own slot.
C7_NoSentinelPanic == err # ErrInuse

\* C10: a call of GetResouce or DoneUsingResource with an ID that is not
\* allocated ends at once in a fatal error (the invalid-ID panic, or the
\* run-time's index panic for an ID outside the array) and changes no slot,
\* no refcount and not the latest handle.
C10_BadIDRejected ==
    [][\A g \in Readers :
          (pc[g] \in {"ready", "using"} /\ pc'[g] # pc[g] /\ arg'[g] # gid[g]) =>
              /\ err' \in {ErrBadID, ErrIndex}
              /\ UNCHANGED <<gLocalImmRscHandles, latestImmRscHandle, refcnt>>]_vars

\* number of slots that cache handle h
SlotsCaching(h) == Cardinality({s \in Slots : gLocalImmRscHandles[s] = h})

\* v1 is the only version published, every allocated worker has read it with
\* mightShare = true and is back from the call, and no call is running
ReadOnceByEach ==
    /\ err = ""
    /\ created = 1
    /\ maxGID >= 0
    /\ \A g \in Readers : \/ pc[g] = "start"
                          \/ pc[g] = "ready" /\ mightShare[g]
    /\ \A w \in Writers : pc[w] \in {"idle", "upd_unref"}

C12_SlotsCurrent ==
    /\ InCritical = {} =>
           \A s \in Slots : s <= maxGID =>
               gLocalImmRscHandles[s] \in {nil, kInuse, latestImmRscHandle}
    /\ err # ErrStale

\* C13: in every step UpdateResouce takes to invalidate slot i, a slot that
\* caches the outgoing handle either still caches it or has been emptied with
\* the handle captured for release; the release that follows drops exactly one
\* reference; and a slot holding the sentinel or nil leads to no release.
C13_InvalidationCaptures ==
    [][\A w \in Writers :
        (pc[w] \in {"upd_store", "upd_swap", "upd_inval"} /\ pc'[w] # pc[w]) =>
            LET s == i[w]
                v == gLocalImmRscHandles[s]
            IN  CASE pc[w] = "upd_inval" ->
                        /\ refcnt' = [refcnt EXCEPT ![local[w]] = @ - 1]
                        /\ gLocalImmRscHandles' = gLocalImmRscHandles
                  [] pc[w] # "upd_inval" /\ v = old[w] ->
                        \/ gLocalImmRscHandles'[s] = v /\ refcnt' = refcnt
                        \/ /\ gLocalImmRscHandles'[s] = nil
                           /\ local'[w] = v
                           /\ pc'[w] = "upd_inval"
                  [] pc[w] # "upd_inval" /\ v \in {nil, kInuse} ->
                        /\ refcnt' = refcnt
                        /\ pc'[w] # "upd_inval"
                  [] OTHER -> TRUE
      ]_vars

\* C14: no step that runs Delete is taken by a writer that holds the global
\* mutex, and the loop's Unref never reports that it dropped the last
\* reference.
C14_NoDeleteUnderMutex ==
    /\ [][(\E h \in Handles : deleted'[h] # deleted[h]) =>
            \A w \in Writers : pc'[w] # pc[w] => latestImmRscHandleMutex # w]_vars
    /\ [](err # ErrLoopLast)

\* a writer still inside its loop, mutex held, has captured the outgoing
\* handle from slot 0 and released that reference without disposing it
C14_Witness ==
    \E w \in Writers :
        /\ err = ""
        /\ pc[w] = "upd_store"
        /\ i[w] = 1
        /\ latestImmRscHandleMutex = w
        /\ local[w] \in Handles
        /\ local[w] = old[w]
        /\ deleted[local[w]] = 0

\* C15: apart from newImmRscHandle creating a handle, every step that changes
\* a refcount changes one that is at least 1; and every increment is either
\* GetResouce's Ref of the latest handle under the mutex or the second Ref of
\* a reader that already holds the handle.
C15_NoRefAfterZero ==
    [][\A h \in Handles :
        refcnt'[h] # refcnt[h] =>
            \/ created' = created + 1 /\ h = created' /\ refcnt'[h] = newImmRscHandle
            \/ /\ refcnt[h] >= 1
               /\ refcnt'[h] > refcnt[h] =>
                    \E g \in Readers :
                        \/ /\ pc[g] = "get_lock" /\ pc'[g] # "get_lock"
                           /\ h = latestImmRscHandle
                           /\ latestImmRscHandleMutex = NoOne
                        \/ /\ pc[g] = "get_shareref" /\ pc'[g] # "get_shareref"
                           /\ res[g] = h
      ]_vars

\* a reader has taken its second reference on a handle while another
\* published handle has already been disposed at refcount 0
C15_Witness ==
    \E g \in Readers :
        /\ err = ""
        /\ pc[g] = "cas_read"
        /\ mightShare[g]
        /\ refcnt[res[g]] >= 2
        /\ \E h \in Published : refcnt[h] = 0 /\ deleted[h] = 1

\* C16: in the step in which GetResouce(w, true) returns h, the caller gains
\* exactly one reference and slot w does not hold the sentinel: either the
\* compare-and-swap succeeded and the slot caches h with a counted reference
\* of its own, or it failed, the slot is empty and the reader has released
\* the extra reference.
C16_SlotAfterSharedGet ==
    [][\A g \in Readers :
        (mightShare[g] /\ pc[g] \in {"cas_store", "cas_atomic", "cas_unref"}
                       /\ pc'[g] = "ready") =>
            LET h == res[g]
                s == arg[g]
            IN  /\ gLocalImmRscHandles'[s] # kInuse
                /\ shared' = [shared EXCEPT ![h] = @ + 1]
                /\ \/ /\ pc[g] # "cas_unref"
                      /\ gLocalImmRscHandles'[s] = h
                      /\ refcnt' = refcnt
                      /\ refcnt[h] >= 2
                   \/ /\ pc[g] = "cas_unref"
                      /\ gLocalImmRscHandles'[s] = nil
                      /\ refcnt' = [refcnt EXCEPT ![h] = @ - 1]
                      /\ refcnt'[h] >= 1
      ]_vars

\* GetResouce(w, true) has returned after a failed compare-and-swap: a writer
\* emptied the slot, the reader released the extra reference, the caller
\* holds one
C16_Witness ==
    \E g \in Readers, h \in Published :
        /\ err = ""
        /\ pc[g] = "ready"
        /\ mightShare[g]
        /\ hist.rel[g] = 1
        /\ gLocalImmRscHandles[gid[g]] = nil
        /\ h = latestImmRscHandle
        /\ shared[h] = 1
        /\ refcnt[h] = 2

\* C17: every step of DoneUsingResource(w, h) leaves the latest handle, the
\* other slots and the other refcounts alone, and either changes nothing yet,
\* or returns having stored h into a slot that held the sentinel with h's
\* refcount unchanged, or returns having left a slot that did not hold the
\* sentinel as it was and decremented h's refcount by one.
C17_DoneUsingEffect ==
    [][\A g \in Readers :
        (~mightShare[g] /\ pc[g] \in {"using", "cas_store", "cas_atomic", "cas_unref"}
                        /\ pc'[g] # pc[g]) =>
            LET s == gid[g]
                h == res[g]
                v == gLocalImmRscHandles[s]
            IN  /\ latestImmRscHandle' = latestImmRscHandle
                /\ \A t \in Slots \ {s} : gLocalImmRscHandles'[t] = gLocalImmRscHandles[t]
                /\ \A k \in Handles \ {h} : refcnt'[k] = refcnt[k]
                /\ \/ /\ pc'[g] # "ready"
                      /\ gLocalImmRscHandles'[s] = v
                      /\ refcnt' = refcnt
                   \/ /\ pc'[g] = "ready"
                      /\ v = kInuse
                      /\ gLocalImmRscHandles'[s] = h
                      /\ refcnt' = refcnt
                   \/ /\ pc'[g] = "ready"
                      /\ v # kInuse
                      /\ gLocalImmRscHandles'[s] = v
                      /\ refcnt'[h] = refcnt[h] - 1
      ]_vars

\* positions between two calls: every other position is inside a call
BetweenCalls == {"start", "ready", "using", "idle"}

\* C18: a call that has started can always go on to its return: the program
\* has not stopped on a fatal error, and a reader that waits for the global
\* mutex waits for a writer that is running its loop and will unlock.
C18_EveryCallProceeds ==
    \A g \in Goroutines :
        pc[g] \notin BetweenCalls =>
            /\ err = ""
            /\ pc[g] = "get_lock" =>
                   \/ latestImmRscHandleMutex = NoOne
                   \/ latestImmRscHandleMutex \in InCritical

\* references on h that reader g holds inside a call or between GetResouce
\* and DoneUsingResource: the one of line 97, and the one of line 106 until
\* the compare-and-swap has placed or released it
ReaderRefs(g, h) ==
    IF pc[g] \in HoldingPCs /\ res[g] = h
    THEN IF mightShare[g] /\ pc[g] # "get_shareref" THEN 2 ELSE 1
    ELSE 0

\* references on h that writer w holds inside UpdateResouce: the global
\* reference of the outgoing handle (released at line 149) and a reference
\* captured from a slot (released at line 139)
WriterRefs(w, h) ==
    (IF old[w] = h /\ pc[w] \in {"upd_store", "upd_swap", "upd_inval", "upd_unref"}
     THEN 1 ELSE 0)
    + (IF local[w] = h /\ pc[w] = "upd_inval" THEN 1 ELSE 0)

\* references on h held by the goroutines of G
RECURSIVE HeldBy(_, _)
HeldBy(G, h) ==
    IF G = {} THEN 0
    ELSE LET g == CHOOSE x \in G : TRUE
         IN (IF g \in Readers THEN ReaderRefs(g, h) ELSE WriterRefs(g, h))
            + HeldBy(G \ {g}, h)

\* C19: the refcount of every undisposed handle is 1 if it is the latest
\* handle, plus the slots that cache it, plus the references callers hold,
\* plus the references operations in flight hold.
C19_RefAccounting ==
    err = "" =>
        \A h \in {0} \cup Published :
            deleted[h] = 0 =>
                refcnt[h] = (IF h = latestImmRscHandle THEN 1 ELSE 0)
                            + SlotsCaching(h) + shared[h] + HeldBy(Goroutines, h)

\* C20: UpdateResouce never dies of Delete on a nil resource: the release of
\* the initial placeholder handle by the first call does not invoke Delete,
\* and Delete runs only on resources passed to UpdateResouce.
C20_FirstUpdateCompletes ==
    /\ err # ErrNilDelete
    /\ deleted[0] = 0

====
